---- MODULE Spec2Model ----
(***************************************************************************)
(* Model of the PushToGitHubDialog component                               *)
(* (app/components/@settings/tabs/connections/components/                  *)
(*  PushToGitHubDialog.tsx): its React state, the localStorage entry       *)
(* 'github_connection', the workbench file map, and the asynchronous       *)
(* handlers handleSubmit, fetchRecentRepos, handleClose and the isOpen     *)
(* effect.  An await is a point where other handlers may run, so           *)
(* handleSubmit is split at its two awaits (octokit.repos.get, onPush).    *)
(***************************************************************************)
EXTENDS Integers, Sequences, FiniteSets, TLC

VARIABLES
    isOpen,             \* prop isOpen
    repoName,           \* useState('')
    isPrivate,          \* useState(false)
    isLoading,          \* useState(false)
    user,               \* useState<GitHubUserResponse | null>(null)
    recentRepos,        \* useState<GitHubRepo[]>([])
    isFetchingRepos,    \* useState(false)
    showSuccessDialog,  \* useState(false)
    createdRepoUrl,     \* useState('')
    pushedFiles,        \* useState<{path; size}[]>([])
    storage,            \* localStorage 'github_connection'
    files,              \* workbenchStore.files.get(), in Object.entries order
    pc,                 \* where the running handleSubmit is suspended
    att,                \* the current/last run of handleSubmit: the values it
                        \* closed over and the calls it was observed to make
    fetches,            \* tokens of the fetchRecentRepos calls awaiting fetch()
    lastFetch,          \* what the last completed fetchRecentRepos did
    logs,               \* values written with console.log / console.error
    envSteps,           \* number of changes made so far by external collaborators
    opens,              \* number of times the dialog was opened so far
    budget              \* what this behaviour explores, and how many times

vars == << isOpen, repoName, isPrivate, isLoading, user, recentRepos,
           isFetchingRepos, showSuccessDialog, createdRepoUrl, pushedFiles,
           storage, files, pc, att, fetches, lastFetch, logs, envSteps, opens, budget >>

compState == << isOpen, repoName, isPrivate, isLoading, user, recentRepos,
                isFetchingRepos, showSuccessDialog, createdRepoUrl, pushedFiles >>

----------------------------------------------------------------------------
(* Bounds of the model *)

MaxEnvSteps == 1    \* external changes (storage or workspace) in one behaviour
MaxAttempts == 2    \* submissions of the form in one behaviour
MaxOpens == 2       \* openings of the dialog in one behaviour

\* a behaviour explores one of: repeated openings of the dialog, repeated
\* submissions, writes of the credential store by the rest of the
\* application, edits of the workspace
Budgets == { [opens |-> MaxOpens, attempts |-> 1, writes |-> 0, edits |-> 0],
             [opens |-> 1, attempts |-> MaxAttempts, writes |-> 0, edits |-> 0],
             [opens |-> 1, attempts |-> 1, writes |-> MaxEnvSteps, edits |-> 0],
             [opens |-> 1, attempts |-> 1, writes |-> 0, edits |-> MaxEnvSteps] }
MaxFiles == 3       \* entries of the workspace file map
MaxFetch == 2       \* recent-repository queries in flight at once

----------------------------------------------------------------------------
(* Strings are sequences of one-character strings, so that trim, substring *)
(* and the UTF-8 length are computed and not assumed.                      *)

WS == " "

RECURSIVE TrimStart(_)
TrimStart(s) ==
    IF s = <<>> THEN <<>>
    ELSE IF Head(s) = WS THEN TrimStart(Tail(s)) ELSE s

RECURSIVE TrimEnd(_)
TrimEnd(s) ==
    IF s = <<>> THEN <<>>
    ELSE IF s[Len(s)] = WS THEN TrimEnd(SubSeq(s, 1, Len(s) - 1)) ELSE s

\* String.prototype.trim
Trim(s) == TrimEnd(TrimStart(s))

\* String.prototype.substring(0, n)
Substring0(s, n) == SubSeq(s, 1, IF Len(s) < n THEN Len(s) ELSE n)

\* a string is truthy iff it is not ''
Truthy(s) == s # <<>>

\* bytes of one character in UTF-8 (TextEncoder)
Utf8Width(ch) == IF ch = "é" THEN 2 ELSE 1

RECURSIVE Utf8Length(_)
Utf8Length(s) ==
    IF s = <<>> THEN 0 ELSE Utf8Width(Head(s)) + Utf8Length(Tail(s))

----------------------------------------------------------------------------
(* Value sets *)

RepoNames == { <<>>, <<" ">>, <<"d">> }

Tokens == { <<>>, <<" ">>, <<"g", "h", "p">>, <<"g", "h", "p", "_", "1">> }

NoUser == "null"
Logins == { "octo" }

NoConn == [present |-> FALSE, user |-> NoUser, token |-> <<>>]
Conn(u, t) == [present |-> TRUE, user |-> u, token |-> t]
Connections ==
    { NoConn, Conn(NoUser, <<"g", "h", "p">>) } \cup
    { Conn("octo", t) : t \in Tokens }

Urls == { "https://github.com/octo/d", "https://github.com/octo/d2" }

WORK_DIR == << "home", "project" >>
Paths == { WORK_DIR \o <<"src", "a.ts">>, WORK_DIR \o <<"logo.png">>,
           WORK_DIR \o <<"b.md">> }

FileDirent(content, bin) ==
    [type |-> "file", isBinary |-> bin, content |-> content]
FolderDirent == [type |-> "folder", isBinary |-> FALSE, content |-> <<>>]

\* (an undefined dirent fails dirent?.type === 'file' exactly as a folder does)
Dirents == { FileDirent(<<"x">>, FALSE), FileDirent(<<"h", "é">>, FALSE),
             FileDirent(<<>>, TRUE), FolderDirent }

\* how a remote call settles: "ok", an Error with a status ("s404", ...), or
\* "nostatus": an error without a status property (network failure, abort)
LookupResults == { "ok", "s404", "s401", "s403", "s500", "nostatus" }
PushResults == { "ok", "s401", "s500" }
FetchResults == { "ok", "s401", "s403", "throw" }

RepoLists == { <<>>, << <<"d">> >> }

----------------------------------------------------------------------------
(* Pure helpers of handleSubmit *)

\* ~/utils/diff extractRelativePath: strips the workspace-root prefix
extractRelativePath(path) ==
    IF Len(path) >= Len(WORK_DIR) /\ SubSeq(path, 1, Len(WORK_DIR)) = WORK_DIR
    THEN SubSeq(path, Len(WORK_DIR) + 1, Len(path))
    ELSE path

\* mutant: the filter forgets the isBinary test
IsPublishableAnyFile(entry) == entry.dirent.type = "file"

\* .filter(([, dirent]) => dirent?.type === 'file' && !dirent.isBinary)
IsPublishable(entry) ==
    entry.dirent.type = "file" /\ ~entry.dirent.isBinary

\* .map(([path, dirent]) => ({ path: ..., size: ... }))
ManifestEntry(entry) ==
    [path |-> extractRelativePath(entry.path),
     size |-> Utf8Length(entry.dirent.content)]

\* mutant: the manifest is built in reverse order
ContentSelectorReversed(fileMap) ==
    LET kept == SelectSeq(fileMap, IsPublishable)
    IN  [i \in 1..Len(kept) |-> ManifestEntry(kept[Len(kept) + 1 - i])]

\* Object.entries(files).filter(...).map(...): the manifest of a file map
ContentSelector(fileMap) ==
    LET kept == SelectSeq(fileMap, IsPublishable)
    IN  [i \in 1..Len(kept) |-> ManifestEntry(kept[i])]

\* !connection?.token || !connection?.user
NoCredential(conn) ==
    \/ ~conn.present
    \/ ~Truthy(conn.token)
    \/ conn.user = NoUser

\* mutant: the name is tested without trim()
EmptyRepositoryNameUntrimmed(name) == ~Truthy(name)

\* !repoName.trim()
EmptyRepositoryName(name) == ~Truthy(Trim(name))

\* mutant: the name is checked before the credential
SubmitGateNameFirst(conn, name) ==
    IF EmptyRepositoryName(name) THEN "return146"
    ELSE IF NoCredential(conn) THEN "return141"
    ELSE "proceed"

\* the two local checks of handleSubmit, in their order (lines 139-147)
SubmitGate(conn, name) ==
    IF NoCredential(conn) THEN "return141"
    ELSE IF EmptyRepositoryName(name) THEN "return146"
    ELSE "proceed"

\* the toast each local check emits
GateToast(exit) ==
    IF exit = "return141" THEN "connect-first" ELSE "name-required"

\* mutant: the answer of the confirmation is ignored
DeclinedNever(answer) == FALSE

\* if (!confirmOverwrite)
Declined(answer) == ~answer

\* error instanceof Error && 'status' in error && error.status !== 404
Rethrown(result) == result \notin { "ok", "s404", "nostatus" }

----------------------------------------------------------------------------
(* The record of one run of handleSubmit *)

NoAttempt ==
    [id |-> 0, exit |-> "none", conn |-> NoConn, name |-> <<>>, priv |-> FALSE,
     loading |-> FALSE, lookups |-> 0, lookup |-> "none", exists |-> FALSE,
     confirmAsked |-> FALSE, confirmAnswer |-> FALSE,
     pushes |-> 0, pushArgs |-> <<>>, push |-> "none",
     wrote |-> FALSE, written |-> <<>>, url |-> "", read |-> <<>>,
     manifest |-> <<>>,
     toasts |-> <<>>,
     stages |-> <<>>]

NewAttempt(conn, name, priv) ==
    [NoAttempt EXCEPT !.id = att.id + 1, !.exit = "running", !.conn = conn, !.name = name,
                      !.priv = priv, !.stages = << "credential" >>]

----------------------------------------------------------------------------
(* Initial state: the component as constructed, closed, with whatever the  *)
(* user has stored and the example workspace of one text and one binary    *)
(* file.                                                                   *)

InitialFiles ==
    << [path |-> WORK_DIR \o <<"src", "a.ts">>, dirent |-> FileDirent(<<"x">>, FALSE)],
       [path |-> WORK_DIR \o <<"logo.png">>, dirent |-> FileDirent(<<>>, TRUE)] >>

NoFetch == [result |-> "none", toast |-> "none"]

Init ==
    /\ isOpen = FALSE
    /\ repoName = <<>>
    /\ isPrivate = FALSE
    /\ isLoading = FALSE
    /\ user = NoUser
    /\ recentRepos = <<>>
    /\ isFetchingRepos = FALSE
    /\ showSuccessDialog = FALSE
    /\ createdRepoUrl = ""
    /\ pushedFiles = <<>>
    /\ storage \in Connections
    /\ files = InitialFiles
    /\ pc = "idle"
    /\ att = NoAttempt
    /\ fetches = <<>>
    /\ lastFetch = NoFetch
    /\ logs = {}
    /\ envSteps = 0
    /\ opens = 0
    /\ budget \in Budgets

----------------------------------------------------------------------------
(* fetchRecentRepos *)

\* console.log('Using GitHub token format:', { tokenPrefix, authHeader })
\* (each logged text is recorded together with the token it was derived from)
TokenFormatLog(cleanToken) ==
    { [site |-> "tokenPrefix", token |-> cleanToken,
       text |-> IF Truthy(cleanToken)
                THEN Substring0(cleanToken, 4) \o <<".", ".", ".">>
                ELSE <<"n", "o", "n", "e">>],
      [site |-> "authHeader", token |-> cleanToken,
       text |-> Substring0(<<"t", "o", "k", "e", "n", " ">> \o cleanToken, 10)
                    \o <<".", ".", ".">>] }

\* console.error('GitHub API Error:', { ..., tokenPrefix })
ApiErrorLog(cleanToken) ==
    { [site |-> "errorTokenPrefix", token |-> cleanToken,
       text |-> IF Truthy(cleanToken) THEN Substring0(cleanToken, 4)
                ELSE <<"n", "o", "n", "e">>] }

\* fetchRecentRepos(token) up to its await of fetch()
FetchStart(token) ==
    IF ~Truthy(token) \/ Trim(token) = <<>>
    THEN /\ lastFetch' = [result |-> "none", toast |-> "auth-required"]
         /\ UNCHANGED << isFetchingRepos, fetches, logs >>
    ELSE /\ isFetchingRepos' = TRUE
         /\ logs' = logs \cup TokenFormatLog(Trim(token))
         /\ fetches' = Append(fetches, Trim(token))
         /\ UNCHANGED lastFetch

\* the isOpen effect, run when the parent opens the dialog
Open ==
    /\ ~isOpen
    /\ opens < budget.opens
    /\ Len(fetches) < MaxFetch
    /\ isOpen' = TRUE
    /\ opens' = opens + 1
    /\ LET connection == storage IN
       IF connection.present /\ connection.user # NoUser /\ Truthy(connection.token)
       THEN /\ user' = connection.user
            /\ IF Truthy(Trim(connection.token))
               THEN FetchStart(connection.token)
               ELSE UNCHANGED << isFetchingRepos, fetches, logs, lastFetch >>
       ELSE UNCHANGED << user, isFetchingRepos, fetches, logs, lastFetch >>
    /\ UNCHANGED << repoName, isPrivate, isLoading, recentRepos, showSuccessDialog,
                    createdRepoUrl, pushedFiles, storage, files, pc, att, envSteps,
                    budget >>

\* every non-OK response taken for an expired token
IsAuthFailureAnyStatus(result) == TRUE

\* if (response.status === 401)
IsAuthFailure(result) == result = "s401"

RemoveAt(seq, i) == SubSeq(seq, 1, i - 1) \o SubSeq(seq, i + 1, Len(seq))

\* fetchRecentRepos from the settling of fetch() to its end
FetchReturn(i, result, repos) ==
    /\ i \in 1..Len(fetches)
    /\ fetches' = RemoveAt(fetches, i)
    /\ isFetchingRepos' = FALSE
    /\ CASE result = "ok" ->
              /\ recentRepos' = repos
              /\ lastFetch' = [result |-> result, toast |-> "none"]
              /\ UNCHANGED << storage, user, logs >>
         [] result \in { "s401", "s403" } ->
              /\ logs' = logs \cup ApiErrorLog(fetches[i])
              /\ IF IsAuthFailure(result)
                 THEN /\ IF storage.present
                         THEN storage' = NoConn /\ user' = NoUser
                         ELSE UNCHANGED << storage, user >>
                      /\ lastFetch' = [result |-> result, toast |-> "token-expired"]
                 ELSE /\ lastFetch' = [result |-> result,
                                       toast |-> "fetch-failed-status"]
                      /\ UNCHANGED << storage, user >>
              /\ UNCHANGED recentRepos
         [] OTHER ->
              /\ lastFetch' = [result |-> result, toast |-> "fetch-failed"]
              /\ UNCHANGED << storage, user, recentRepos, logs >>
    /\ UNCHANGED << isOpen, repoName, isPrivate, isLoading, showSuccessDialog,
                    createdRepoUrl, pushedFiles, files, pc, att, envSteps, opens, budget >>

----------------------------------------------------------------------------
(* handleSubmit *)

\* the form is rendered: not the success view, not the connect-first view
FormShown == isOpen /\ ~showSuccessDialog /\ user # NoUser

\* handleSubmit up to its first await (lines 134-164)
Submit ==
    /\ FormShown
    /\ ~isLoading                       \* submit button: disabled={isLoading}
    /\ att.id < budget.attempts
    /\ LET connection == storage
           a == NewAttempt(connection, repoName, isPrivate)
           gate == SubmitGate(connection, repoName)
       IN
       IF gate # "proceed"
       THEN /\ att' = [a EXCEPT !.exit = gate, !.toasts = << GateToast(gate) >>,
                                !.stages = Append(@, "report")]
            /\ UNCHANGED << isLoading, pc >>
       ELSE /\ isLoading' = TRUE
            /\ pc' = "lookup"
            /\ att' = [a EXCEPT !.loading = TRUE, !.lookups = 1,
                                !.stages = Append(@, "lookup")]
    /\ UNCHANGED << isOpen, repoName, isPrivate, user, recentRepos, isFetchingRepos,
                    showSuccessDialog, createdRepoUrl, pushedFiles, storage, files,
                    fetches, lastFetch, logs, envSteps, opens, budget >>

\* the arguments taken from the form as it is when onPush is called
PushArgsCurrent(a) == << repoName, a.conn.user, a.conn.token, isPrivate >>

\* onPush(repoName, connection.user.login, connection.token, isPrivate)
PushArgs(a) == << a.name, a.conn.user, a.conn.token, a.priv >>

\* the catch block without the finally block
CatchWithoutFinally(a) ==
    /\ att' = [a EXCEPT !.exit = "catch198",
                        !.toasts = Append(a.toasts, "push-failed"),
                        !.stages = Append(@, "report")]
    /\ logs' = logs \cup { [site |-> "pushError", token |-> <<>>, text |-> <<>>] }
    /\ pc' = "idle"
    /\ UNCHANGED isLoading

\* catch (error) { console.error; toast.error } finally { setIsLoading(false) }
CatchAndFinish(a) ==
    /\ att' = [a EXCEPT !.exit = "catch198",
                        !.toasts = Append(a.toasts, "push-failed"),
                        !.stages = Append(@, "report")]
    /\ logs' = logs \cup { [site |-> "pushError", token |-> <<>>, text |-> <<>>] }
    /\ isLoading' = FALSE
    /\ pc' = "idle"

\* handleSubmit from the settling of octokit.repos.get to the call of onPush
\* or to its return (lines 160-182).  exists: whether the target repository
\* exists on the remote; answer: what window.confirm returns if it is asked.
LookupReturn(result, exists, answer) ==
    /\ pc = "lookup"
    /\ result = "ok" => exists
    /\ result = "s404" => ~exists
    /\ LET a == [att EXCEPT !.lookup = result, !.exists = exists] IN
       IF result = "ok"
       THEN LET b == [a EXCEPT !.confirmAsked = TRUE, !.confirmAnswer = answer,
                               !.stages = Append(@, "confirm")] IN
            IF Declined(answer)
            THEN /\ att' = [b EXCEPT !.exit = "return173"]
                 /\ isLoading' = FALSE
                 /\ pc' = "idle"
                 /\ UNCHANGED logs
            ELSE /\ att' = [b EXCEPT !.pushes = @ + 1, !.pushArgs = PushArgs(b),
                                     !.stages = Append(@, "push")]
                 /\ pc' = "push"
                 /\ UNCHANGED << isLoading, logs >>
       ELSE IF Rethrown(result)
       THEN CatchAndFinish(a)
       ELSE /\ att' = [a EXCEPT !.pushes = @ + 1, !.pushArgs = PushArgs(a),
                                !.stages = Append(@, "push")]
            /\ pc' = "push"
            /\ UNCHANGED << isLoading, logs >>
    /\ UNCHANGED << isOpen, repoName, isPrivate, user, recentRepos, isFetchingRepos,
                    showSuccessDialog, createdRepoUrl, pushedFiles, storage, files,
                    fetches, lastFetch, envSteps, opens, budget >>

\* the push collaborator reads the workspace it writes to the repository,
\* at some moment between the call of onPush and its settling
PushSnapshot ==
    /\ pc = "push"
    /\ ~att.wrote
    /\ att' = [att EXCEPT !.wrote = TRUE, !.written = files]
    /\ UNCHANGED << isOpen, repoName, isPrivate, isLoading, user, recentRepos,
                    isFetchingRepos, showSuccessDialog, createdRepoUrl, pushedFiles,
                    storage, files, pc, fetches, lastFetch, logs, envSteps, opens, budget >>

\* handleSubmit from the settling of onPush to its end (lines 182-201)
PushReturn(result, repoUrl) ==
    /\ pc = "push"
    /\ result = "ok" => att.wrote
    /\ LET a == [att EXCEPT !.push = result] IN
       IF result = "ok"
       THEN LET filesList == ContentSelector(files) IN
            /\ createdRepoUrl' = repoUrl
            /\ pushedFiles' = filesList
            /\ showSuccessDialog' = TRUE
            /\ isLoading' = FALSE
            /\ pc' = "idle"
            /\ att' = [a EXCEPT !.exit = "end195", !.url = repoUrl,
                                !.read = files, !.manifest = filesList,
                                !.stages = @ \o << "select", "report" >>]
            /\ UNCHANGED logs
       ELSE /\ CatchAndFinish(a)
            /\ UNCHANGED << createdRepoUrl, pushedFiles, showSuccessDialog >>
    /\ UNCHANGED << isOpen, repoName, isPrivate, user, recentRepos, isFetchingRepos,
                    storage, files, fetches, lastFetch, envSteps, opens, budget >>

----------------------------------------------------------------------------
(* The other handlers of the form *)

\* handleClose without setShowSuccessDialog(false)
handleCloseKeepsDialog ==
    /\ isOpen
    /\ repoName' = <<>>
    /\ isPrivate' = FALSE
    /\ createdRepoUrl' = ""
    /\ isOpen' = FALSE
    /\ UNCHANGED << isLoading, user, recentRepos, isFetchingRepos, showSuccessDialog,
                    pushedFiles, storage, files, pc, att, fetches, lastFetch, logs,
                    envSteps, opens, budget >>

\* handleClose; onClose() makes the parent close the dialog
handleClose ==
    /\ isOpen
    /\ repoName' = <<>>
    /\ isPrivate' = FALSE
    /\ showSuccessDialog' = FALSE
    /\ createdRepoUrl' = ""
    /\ isOpen' = FALSE
    /\ UNCHANGED << isLoading, user, recentRepos, isFetchingRepos, pushedFiles,
                    storage, files, pc, att, fetches, lastFetch, logs, envSteps, opens, budget >>

\* onChange of the repository-name input
SetRepoName(name) ==
    /\ FormShown
    /\ name # repoName
    /\ repoName' = name
    /\ UNCHANGED << isOpen, isPrivate, isLoading, user, recentRepos, isFetchingRepos,
                    showSuccessDialog, createdRepoUrl, pushedFiles, storage, files,
                    pc, att, fetches, lastFetch, logs, envSteps, opens, budget >>

\* onClick of a recent repository: setRepoName(repo.name)
SelectRecentRepo(i) ==
    /\ FormShown
    /\ i \in 1..Len(recentRepos)
    /\ repoName # recentRepos[i]
    /\ repoName' = recentRepos[i]
    /\ UNCHANGED << isOpen, isPrivate, isLoading, user, recentRepos, isFetchingRepos,
                    showSuccessDialog, createdRepoUrl, pushedFiles, storage, files,
                    pc, att, fetches, lastFetch, logs, envSteps, opens, budget >>

\* onChange of the "private" checkbox
SetIsPrivate ==
    /\ FormShown
    /\ isPrivate' = ~isPrivate
    /\ UNCHANGED << isOpen, repoName, isLoading, user, recentRepos, isFetchingRepos,
                    showSuccessDialog, createdRepoUrl, pushedFiles, storage, files,
                    pc, att, fetches, lastFetch, logs, envSteps, opens, budget >>

----------------------------------------------------------------------------
(* External collaborators: the credential store is written elsewhere in    *)
(* the application, and the workspace is edited while the dialog is used.  *)
(* The component reads the workspace only after onPush settles (line 186)  *)
(* and the push reads it while it runs, so an edit made at any other time  *)
(* is seen exactly as one made at the start of the push: edits are taken   *)
(* while the push is in flight.                                            *)

envUnchanged == << isOpen, repoName, isPrivate, isLoading, user, recentRepos,
                   isFetchingRepos, showSuccessDialog, createdRepoUrl, pushedFiles,
                   pc, att, fetches, lastFetch, logs, opens, budget >>

StorageWrite(conn) ==
    /\ envSteps < budget.writes
    /\ conn # storage
    /\ storage' = conn
    /\ envSteps' = envSteps + 1
    /\ UNCHANGED files
    /\ UNCHANGED envUnchanged

PathsOf(fileMap) == { fileMap[i].path : i \in 1..Len(fileMap) }

WorkspaceAdd(path, dirent) ==
    /\ envSteps < budget.edits
    /\ pc = "push"
    /\ Len(files) < MaxFiles
    /\ path \notin PathsOf(files)
    /\ files' = Append(files, [path |-> path, dirent |-> dirent])
    /\ envSteps' = envSteps + 1
    /\ UNCHANGED storage
    /\ UNCHANGED envUnchanged

WorkspaceRemove(i) ==
    /\ envSteps < budget.edits
    /\ pc = "push"
    /\ i \in 1..Len(files)
    /\ files' = RemoveAt(files, i)
    /\ envSteps' = envSteps + 1
    /\ UNCHANGED storage
    /\ UNCHANGED envUnchanged

WorkspaceChange(i, dirent) ==
    /\ envSteps < budget.edits
    /\ pc = "push"
    /\ i \in 1..Len(files)
    /\ dirent # files[i].dirent
    /\ files' = [files EXCEPT ![i].dirent = dirent]
    /\ envSteps' = envSteps + 1
    /\ UNCHANGED storage
    /\ UNCHANGED envUnchanged

----------------------------------------------------------------------------

Next ==
    \/ Open
    \/ \E i \in 1..MaxFetch, r \in FetchResults, repos \in RepoLists :
           FetchReturn(i, r, repos)
    \/ Submit
    \/ \E r \in LookupResults, exists \in BOOLEAN, answer \in BOOLEAN :
           LookupReturn(r, exists, answer)
    \/ PushSnapshot
    \/ \E r \in PushResults, repoUrl \in Urls : PushReturn(r, repoUrl)
    \/ handleClose
    \/ \E name \in RepoNames : SetRepoName(name)
    \/ \E i \in 1..Len(recentRepos) : SelectRecentRepo(i)
    \/ SetIsPrivate
    \/ \E conn \in Connections : StorageWrite(conn)
    \/ \E path \in Paths, dirent \in Dirents : WorkspaceAdd(path, dirent)
    \/ \E i \in 1..MaxFiles : WorkspaceRemove(i)
    \/ \E i \in 1..MaxFiles, dirent \in Dirents : WorkspaceChange(i, dirent)

Spec == Init /\ [][Next]_vars

\* every awaited remote call settles: octokit.repos.get resolves or rejects,
\* and so does onPush
FairSpec ==
    /\ Spec
    /\ WF_vars(\E r \in LookupResults, exists \in BOOLEAN, answer \in BOOLEAN :
                   LookupReturn(r, exists, answer))
    /\ WF_vars(\E r \in PushResults, repoUrl \in Urls : PushReturn(r, repoUrl))

TypeOK ==
    /\ isOpen \in BOOLEAN /\ isPrivate \in BOOLEAN /\ isLoading \in BOOLEAN
    /\ repoName \in RepoNames
    /\ user \in Logins \cup {NoUser}
    /\ storage \in Connections
    /\ pc \in { "idle", "lookup", "push" }
    /\ Len(files) <= MaxFiles
    /\ Len(fetches) <= MaxFetch

----------------------------------------------------------------------------
(* The outcome of a publish attempt, read off the exit handleSubmit took    *)

Finished == att.exit \notin { "none", "running" }
BlockedNoCredential == att.exit = "return141"
BlockedEmptyName == att.exit = "return146"
Blocked == BlockedNoCredential \/ BlockedEmptyName
Cancelled == att.exit = "return173"
Succeeded == att.exit = "end195"
Failed == att.exit = "catch198"

\* a string made of whitespace only ('' included)
IsBlank(s) == \A i \in 1..Len(s) : s[i] = WS

\* the manifest the rule "a file that is not binary, in workspace order"
\* gives for a file map, computed entry by entry
RECURSIVE ExpectedManifest(_)
ExpectedManifest(fileMap) ==
    IF fileMap = <<>> THEN <<>>
    ELSE LET e == Head(fileMap) IN
         IF e.dirent.type = "file" /\ e.dirent.isBinary = FALSE
         THEN << [path |-> extractRelativePath(e.path),
                  size |-> Utf8Length(e.dirent.content)] >>
                  \o ExpectedManifest(Tail(fileMap))
         ELSE ExpectedManifest(Tail(fileMap))

FilesOf(fileMap) == { i \in 1..Len(fileMap) : fileMap[i].dirent.type = "file" }
BinariesOf(fileMap) == { i \in FilesOf(fileMap) : fileMap[i].dirent.isBinary }

----------------------------------------------------------------------------
(* Claims *)

\* C1: in an attempt whose target repository exists on the remote, onPush is
\* invoked only if the overwrite confirmation was asked in that attempt and
\* returned true, however the lookup settled.
C1_PushOnlyAfterConfirmation ==
    (att.exists /\ att.pushes > 0) => (att.confirmAsked /\ att.confirmAnswer)

\* C2: when the lookup succeeds and the confirmation returns false, the
\* attempt ends as Cancelled: onPush is never invoked, no failure
\* notification is emitted and the success dialog is not shown.
C2_DeclinedIsCancelled ==
    (att.lookup = "ok" /\ att.confirmAsked /\ ~att.confirmAnswer)
        => /\ Cancelled
           /\ pc = "idle"
           /\ att.pushes = 0
           /\ att.toasts = <<>>
           /\ ~showSuccessDialog
           /\ ~isLoading

C2_Witness == Cancelled /\ att.lookup = "ok" /\ ~att.confirmAnswer

\* C3: every failure of the lookup other than a 404 (401, other 4xx, 5xx, or
\* a failure with no status) ends the attempt as Failed without onPush being
\* invoked; only a 404 is treated as NotFound.
C3_OnlyNotFoundProceeds ==
    (att.lookup \notin { "none", "ok", "s404" })
        => (Failed /\ att.pushes = 0)

\* C4: a 401 on any remote call of the workflow (lookup, push, recent
\* repositories query) yields the authentication-expired failure and clears
\* the credential store, so the stored connection reads absent afterwards.
C4_UnauthorizedClearsCredential ==
    [][ /\ ( /\ att.exit = "running"
             /\ att'.exit # "running"
             /\ (att'.lookup = "s401" \/ att'.push = "s401") )
            => (~storage'.present /\ att'.toasts = << "token-expired" >>)
        /\ ( /\ Len(fetches') < Len(fetches)
             /\ lastFetch'.result = "s401" )
            => (~storage'.present /\ lastFetch'.toast = "token-expired")
      ]_vars

\* C5: for a repository name that is empty or whitespace only, the attempt
\* issues no remote call, ends as Blocked and never sets isLoading.
C5_BlankNameBlocked ==
    (att.exit # "none" /\ IsBlank(att.name))
        => /\ Blocked
           /\ att.lookups = 0
           /\ att.pushes = 0
           /\ ~att.loading
           /\ ~isLoading
           /\ pc = "idle"

C5_Witness == BlockedEmptyName /\ att.name = <<" ">>

\* C6: if the stored connection is absent, has no user or has an empty
\* token, the attempt ends as Blocked(no-credential) before any remote call,
\* whatever the repository name is (the credential check comes first).
C6_NoCredentialBlockedFirst ==
    (att.exit # "none"
       /\ (~att.conn.present \/ att.conn.user = NoUser \/ att.conn.token = <<>>))
        => /\ BlockedNoCredential
           /\ att.toasts = << "connect-first" >>
           /\ att.lookups = 0
           /\ att.pushes = 0
           /\ pc = "idle"

C6_Witness ==
    /\ BlockedNoCredential
    /\ att.conn.present /\ att.conn.user = NoUser
    /\ IsBlank(att.name)

\* C7: if the stored token is not empty but whitespace only, the attempt
\* ends as Blocked(no-credential) and issues no remote call.
C7_BlankTokenBlocked ==
    (att.exit # "none" /\ att.conn.present /\ att.conn.token # <<>>
       /\ IsBlank(att.conn.token))
        => (BlockedNoCredential /\ att.lookups = 0 /\ att.pushes = 0)

\* C8: the manifest of a succeeded attempt has an entry for a workspace entry
\* iff it is a file with isBinary false: with N files of which K are binary
\* it has N - K entries, and no directory or binary file appears in it.
C8_ManifestIsTextFiles ==
    Succeeded =>
        /\ pushedFiles = att.manifest
        /\ Len(pushedFiles) =
             Cardinality(FilesOf(att.read)) - Cardinality(BinariesOf(att.read))
        /\ \A i \in 1..Len(att.read) :
             (\E j \in 1..Len(pushedFiles) :
                 pushedFiles[j].path = extractRelativePath(att.read[i].path))
             <=> (i \in FilesOf(att.read) /\ i \notin BinariesOf(att.read))

C8_Witness ==
    /\ Succeeded
    /\ Cardinality(FilesOf(att.read)) = 3
    /\ Cardinality(BinariesOf(att.read)) = 1
    /\ Len(pushedFiles) = 2

\* C9: when the lookup returns 404 and the push then succeeds, the attempt
\* ends as Succeeded without the confirmation being asked, the displayed URL
\* is the one onPush returned, and the manifest lists the non-binary files
\* of the workspace exactly, in the workspace's order.
C9_NotFoundThenPushSucceeds ==
    (att.lookup = "s404" /\ att.push = "ok")
        => /\ Succeeded
           /\ ~att.confirmAsked
           /\ att.pushes = 1
           /\ showSuccessDialog => createdRepoUrl = att.url
           /\ pushedFiles = ExpectedManifest(att.read)

C9_Witness ==
    /\ Succeeded /\ att.lookup = "s404"
    /\ showSuccessDialog /\ createdRepoUrl \in Urls
    /\ Len(pushedFiles) = 2

\* C10: the manifest of a succeeded attempt describes the files the push of
\* that attempt wrote, also when the workspace is modified while the lookup
\* or the push is in flight.
C10_ManifestIsWhatWasWritten ==
    Succeeded => pushedFiles = ExpectedManifest(att.written)


\* C11: every publish attempt produces exactly one terminal outcome: an
\* error raised by the lookup (other than a 404) or by onPush yields exactly
\* one failure notification and no success dialog, nothing escapes
\* handleSubmit, and a succeeded attempt emits no failure notification.
C11_OneOutcomePerAttempt ==
    (att.exit # "none" /\ pc = "idle")
        => /\ Finished
           /\ (att.lookup \notin { "none", "ok", "s404" }
                 \/ att.push \notin { "none", "ok" })
                => /\ Failed
                   /\ att.toasts = << "push-failed" >>
                   /\ ~showSuccessDialog
           /\ Succeeded => att.toasts = <<>>


\* C12: the component removes the stored credential only in response to a
\* remote call that returned 401; no other step of the component (blocked,
\* cancelled, succeeded or failed attempt, handleClose, opening) removes or
\* modifies the stored connection.
C12_CredentialRemovedOnlyOn401 ==
    [][ storage' # storage
          => \/ envSteps' = envSteps + 1      \* written by the rest of the application
             \/ /\ Len(fetches') < Len(fetches)
                /\ lastFetch'.result = "s401"
                /\ storage' = NoConn
      ]_vars

C12_Witness ==
    /\ lastFetch.result = "s401"
    /\ ~storage.present
    /\ envSteps = 0
    /\ att.exit # "none"


\* text occurs in value as a contiguous substring
Contains(value, text) ==
    \E k \in 0..(Len(value) - Len(text)) :
        SubSeq(value, k + 1, k + Len(text)) = text

\* C13: for every non-empty token, of any length, no value the component
\* writes to the logs contains the complete token.
C13_TokenNeverLoggedWhole ==
    \A l \in logs : l.token # <<>> => ~Contains(l.text, l.token)


\* the place of a stage in the specified pipeline
StageRank(stage) ==
    CASE stage = "credential" -> 1
      [] stage = "lookup"     -> 2
      [] stage = "confirm"    -> 3
      [] stage = "select"     -> 4
      [] stage = "push"       -> 5
      [] stage = "report"     -> 6

\* C14: within one publish attempt the stages occur in the order credential
\* check, repository lookup, confirmation, content selection, push, report,
\* and none is entered twice; the workspace is read before onPush is called.
C14_StagesInSpecifiedOrder ==
    \A i, j \in 1..Len(att.stages) :
        i < j => StageRank(att.stages[i]) < StageRank(att.stages[j])


\* C15: onPush is called at most once in an attempt and the lookup is made
\* at most once; an attempt that failed is over (nothing is in flight, so
\* nothing is retried); the name and the visibility passed to onPush are the
\* values the form had when the attempt was submitted.
C15_OnePushWithSubmittedValues ==
    /\ att.pushes <= 1
    /\ att.lookups <= 1
    /\ Len(att.stages) = Cardinality({ att.stages[i] : i \in 1..Len(att.stages) })
    /\ Failed => /\ pc = "idle"
                 /\ att.pushes = IF att.push = "none" THEN 0 ELSE 1
    /\ att.pushes = 1 => /\ att.pushArgs[1] = att.name
                         /\ att.pushArgs[4] = att.priv

\* a push failed after the user had changed the form during the lookup
C15_Witness ==
    /\ Failed
    /\ att.push = "s500"
    /\ att.pushes = 1
    /\ repoName # att.name
    /\ att.pushArgs[1] = att.name


\* C16: isLoading is true exactly while an attempt has a remote call in
\* flight, so it is false after every terminal outcome; a new attempt starts
\* only when none is in flight; and, every remote call settling, isLoading
\* never stays true.
C16_LoadingWhileInFlight ==
    /\ [](isLoading <=> pc # "idle")
    /\ [](Finished => (~isLoading /\ pc = "idle"))
    /\ [][att'.id # att.id => (pc = "idle" /\ ~isLoading)]_vars
    /\ (isLoading ~> ~isLoading)

\* a second attempt was submitted after the first one ended, went through
\* a remote call and ended as well
C16_Witness ==
    /\ att.id = 2
    /\ att.loading
    /\ Failed
    /\ ~isLoading


\* C17: once handleClose has run, and until a new attempt is submitted,
\* showSuccessDialog is false and createdRepoUrl is empty, also when a push
\* that was in flight completes afterwards.  A closed dialog is in that
\* situation: handleClose is what closed it, and it accepts no submission.
C17_ClosedDialogIsReset ==
    ~isOpen => (~showSuccessDialog /\ createdRepoUrl = "")

\* C18: whenever showSuccessDialog is true, the last attempt succeeded,
\* createdRepoUrl is the URL its onPush returned and pushedFiles is the
\* manifest it computed; and showSuccessDialog becomes true only in the step
\* in which onPush returns successfully.
C18_SuccessViewShowsLastPush ==
    /\ [](showSuccessDialog =>
            /\ Succeeded
            /\ att.push = "ok"
            /\ att.url \in Urls
            /\ createdRepoUrl = att.url
            /\ pushedFiles = att.manifest)
    /\ [][(~showSuccessDialog /\ showSuccessDialog')
              => (pc = "push" /\ att'.push = "ok" /\ att'.id = att.id)]_vars

\* the success view after a second attempt, the first one having ended
\* without a push
C18_Witness ==
    /\ showSuccessDialog
    /\ att.id = 2
    /\ createdRepoUrl = att.url
    /\ pushedFiles # <<>>

\* C19: no recent-repositories query is issued for an empty or
\* whitespace-only token, and isFetchingRepos is true exactly while at least
\* one query is in flight.
C19_FetchingFlagTracksQueries ==
    /\ \A i \in 1..Len(fetches) : ~IsBlank(fetches[i])
    /\ isFetchingRepos <=> Len(fetches) > 0

====
